---- MODULE Spec2Model ----
(***************************************************************************)
(* Model of the multi-source field-priority merge engine of the JAV NFO    *)
(* generator: the scraper registry (scrapers/factory.py), the fan-out      *)
(* query and the field merge (utils/multi_scraper.py).                     *)
(*                                                                         *)
(* Python values are modelled as records of one shape, tagged by their     *)
(* Python type; a Python str is the sequence of its characters, so that    *)
(* str.strip() is computed and not looked up.  A Python dict whose         *)
(* insertion order matters (the results mapping) is a sequence of          *)
(* <<key, value>> pairs with distinct keys; a dict whose order does not    *)
(* matter is a function.                                                   *)
(***************************************************************************)
EXTENDS Integers, Sequences, FiniteSets, TLC

VARIABLES
    registry,         \* ScraperFactory._scrapers: registered name -> scraper class
    strategy,         \* settings.SCRAPER_MERGE_STRATEGY
    pc,               \* position of the search_with_priority call
    idx,              \* position of the loop of search_all_scrapers in enabled_scrapers
    scraper_results,  \* the results mapping built by search_all_scrapers
    merged,           \* the record built by merge_metadata
    ret,              \* what search_with_priority returned
    jav_id,           \* search_manual: its jav_id after normalize_jav_code
    manual_ret,       \* what search_manual returned ("n/a" outside search_manual)
    query_code,       \* the jav_code argument of search_with_priority
    lookups,          \* the calls of scraper.search made by search_all_scrapers
    pm_op,            \* the PatternMatcher function that was applied
    pm_prev,          \* <<x>> when its argument is what the function before returned for x
    pm_in,            \* its argument
    pm_out,           \* the string it returned
    pm_valid,         \* the truth value it returned
    factory_call,     \* the last call of register_scraper or create_scraper
    cache,            \* TranslationCache.cache: field type -> key -> translation
    cache_prev,       \* cache as it was before the last call
    cache_call        \* the last call of a TranslationCache method

search_vars == <<registry, strategy, pc, idx, scraper_results, merged, ret,
                 jav_id, manual_ret, query_code, lookups>>

pattern_vars == <<pm_op, pm_prev, pm_in, pm_out, pm_valid>>

factory_vars == <<factory_call>>

cache_vars == <<cache, cache_prev, cache_call>>

vars == <<search_vars, pattern_vars, factory_vars, cache_vars>>

----------------------------------------------------------------------------
(* Bounds of the model *)

\* longest list a provider returns for a list-valued field
MaxListLen == 2

\* longest free-form string given to a PatternMatcher function
MaxRawLen == 6

\* the number of translations the cache holds at most
MaxCacheEntries == 1

----------------------------------------------------------------------------
(* Configuration: config/settings.py and MultiScraperManager.__init__ *)

ENABLED_SCRAPERS == <<"fanza", "r18dev">>

FIELD_PRIORITY == <<"r18dev", "fanza">>

\* the keys of self.field_priorities; every one of them maps to a
\* FIELD_PRIORITY_* setting, and all twelve settings hold the same list
PriorityFields ==
    {"title", "title_en", "actresses", "actors", "directors", "categories",
     "genres", "maker", "studio", "series", "release_date", "runtime",
     "description", "cover_url", "poster_url", "gallery"}

field_priorities == [f \in PriorityFields |-> FIELD_PRIORITY]

\* PriorityList without the fallback to the enabled scrapers: a field
\* outside the table has no provider to ask
PriorityList_NoFallback(field) ==
    IF field \in DOMAIN field_priorities THEN field_priorities[field] ELSE <<>>

\* self.field_priorities.get(field, self.enabled_scrapers)
PriorityList(field) ==
    IF field \in DOMAIN field_priorities THEN field_priorities[field]
                                         ELSE ENABLED_SCRAPERS

\* the fields that _get_field_by_priority_with_source list-merges in
\* "merge" strategy
ListMergeFields == {"actresses", "actors", "directors", "categories", "gallery"}

Strategies == {"priority", "merge"}

----------------------------------------------------------------------------
(* Python values *)

Range(s) == {s[i] : i \in 1..Len(s)}

PyNone     == [t |-> "None",  s |-> <<>>, n |-> 0, l |-> <<>>]
PyStr(cs)  == [t |-> "str",   s |-> cs,   n |-> 0, l |-> <<>>]
PyInt(k)   == [t |-> "int",   s |-> <<>>, n |-> k, l |-> <<>>]
PyFloat(k) == [t |-> "float", s |-> <<>>, n |-> k, l |-> <<>>]
PyList(xs) == [t |-> "list",  s |-> <<>>, n |-> 0, l |-> xs]
\* a dict value (maker, series, raw_data): n is the number of its entries
PyDict(k)  == [t |-> "dict",  s |-> <<>>, n |-> k, l |-> <<>>]

\* entries of a list value: a str, or a dict that may have 'name' and 'id'
\* and holds other content (rest)
StrItem(cs) ==
    [t |-> "str", s |-> cs, hasName |-> FALSE, name |-> <<>>,
     hasId |-> FALSE, id |-> <<>>]
DictItem(hasName, name, hasId, id, rest) ==
    [t |-> "dict", s |-> rest, hasName |-> hasName, name |-> name,
     hasId |-> hasId, id |-> id]

Whitespace == {" ", "\t", "\n"}

\* str.strip(): drop leading and trailing whitespace
RECURSIVE LStrip(_)
LStrip(cs) ==
    IF cs = <<>> THEN <<>>
    ELSE IF Head(cs) \in Whitespace THEN LStrip(Tail(cs))
    ELSE cs

RECURSIVE RStrip(_)
RStrip(cs) ==
    IF cs = <<>> THEN <<>>
    ELSE IF cs[Len(cs)] \in Whitespace THEN RStrip(SubSeq(cs, 1, Len(cs) - 1))
    ELSE cs

Strip(cs) == RStrip(LStrip(cs))

\* len(value) of a list or dict value
PyLen(v) == IF v.t = "list" THEN Len(v.l) ELSE v.n

\* _is_valid_value as the truth value of the value: a whitespace-only
\* string passes
_is_valid_value_Truthy(v) ==
    CASE v.t = "None" -> FALSE
      [] v.t = "str" -> v.s # <<>>
      [] v.t \in {"list", "dict"} -> PyLen(v) # 0
      [] OTHER -> v.n # 0

\* MultiScraperManager._is_valid_value
_is_valid_value(v) ==
    IF v.t = "None" THEN FALSE
    ELSE IF v.t = "str" /\ Strip(v.s) = <<>> THEN FALSE
    ELSE IF v.t \in {"list", "dict"} /\ PyLen(v) = 0 THEN FALSE
    ELSE IF v.t \in {"int", "float"} /\ v.n = 0 THEN FALSE
    ELSE TRUE

\* str(item) of a dict entry: its printed form, built from all it holds
Repr(item) ==
    <<"{">> \o (IF item.hasName THEN <<"n", ":">> \o item.name \o <<",">> ELSE <<>>)
            \o (IF item.hasId THEN <<"i", ":">> \o item.id \o <<",">> ELSE <<>>)
            \o item.s \o <<"}">>

\* the identifier with 'id' looked up before 'name'
Identifier_IdFirst(item) ==
    IF item.t = "dict"
    THEN IF item.hasId THEN item.id
         ELSE IF item.hasName THEN item.name
         ELSE Repr(item)
    ELSE item.s

\* the identifier _merge_list_field computes for a list entry:
\* item.get('name', item.get('id', str(item))) for a dict, str(item) otherwise
Identifier(item) ==
    IF item.t = "dict"
    THEN IF item.hasName THEN item.name
         ELSE IF item.hasId THEN item.id
         ELSE Repr(item)
    ELSE item.s

----------------------------------------------------------------------------
(* Provider results and the results mapping *)

NoneResult == [kind |-> "None", rec |-> <<>>]
DictResult(r) == [kind |-> "dict", rec |-> r]

\* 'result is not None'
IsNotNone(result) == result.kind # "None"

\* 'if result:' -- a result is truthy when it is a dict with an entry
Truthy(result) == result.kind = "dict" /\ DOMAIN result.rec # {}

\* keys of a results mapping, in insertion order
Keys(d) == [i \in 1..Len(d) |-> d[i][1]]

HasKey(d, k) == \E i \in 1..Len(d) : d[i][1] = k

\* d[k]
Get(d, k) == d[CHOOSE i \in 1..Len(d) : d[i][1] = k][2]

\* d[k] = v: an existing key keeps its place, a new key goes last
DictSet(d, k, v) ==
    IF HasKey(d, k)
    THEN [i \in 1..Len(d) |-> IF d[i][1] = k THEN <<k, v>> ELSE d[i]]
    ELSE Append(d, <<k, v>>)

----------------------------------------------------------------------------
(* utils/multi_scraper.py: the field merge *)

\* the (value, source) tuple of _get_field_by_priority_with_source; a value
\* or a source of None is PyNone or NoSource
NoSource == ""

\* the loop over one provider's list in _merge_list_field: acc holds
\* merged_list and seen_items
RECURSIVE MergeItems(_, _)
MergeItems(items, acc) ==
    IF items = <<>> THEN acc
    ELSE LET item == Head(items)
             identifier == Identifier(item)
         IN  IF identifier \notin acc.seen_items
             THEN MergeItems(Tail(items),
                             [merged_list |-> Append(acc.merged_list, item),
                              seen_items  |-> acc.seen_items \cup {identifier}])
             ELSE MergeItems(Tail(items), acc)

\* the loop over priority_list in _merge_list_field
RECURSIVE MergeProviders(_, _, _, _)
MergeProviders(field, results, priority_list, acc) ==
    IF priority_list = <<>> THEN acc
    ELSE LET scraper_name == Head(priority_list)
             rest == Tail(priority_list)
         IN  IF HasKey(results, scraper_name) /\ Truthy(Get(results, scraper_name))
             THEN LET result == Get(results, scraper_name).rec
                  IN  IF field \in DOMAIN result /\ result[field].t = "list"
                      THEN MergeProviders(field, results, rest,
                                          MergeItems(result[field].l, acc))
                      ELSE MergeProviders(field, results, rest, acc)
             ELSE MergeProviders(field, results, rest, acc)

\* MultiScraperManager._merge_list_field
_merge_list_field(field, results) ==
    MergeProviders(field, results, PriorityList(field),
                   [merged_list |-> <<>>, seen_items |-> {}]).merged_list

\* the "use first available" loop of _get_field_by_priority_with_source
RECURSIVE FirstAvailable(_, _, _)
FirstAvailable(field, results, priority_list) ==
    IF priority_list = <<>> THEN [value |-> PyNone, source |-> NoSource]
    ELSE LET scraper_name == Head(priority_list)
         IN  IF /\ HasKey(results, scraper_name)
                /\ Truthy(Get(results, scraper_name))
                /\ field \in DOMAIN Get(results, scraper_name).rec
                /\ _is_valid_value(Get(results, scraper_name).rec[field])
             THEN [value  |-> Get(results, scraper_name).rec[field],
                   source |-> scraper_name]
             ELSE FirstAvailable(field, results, Tail(priority_list))

\* the list-merge branch taken for every field in merge strategy
IsListMerged_AnyField(field, strat) == strat = "merge"

\* which fields take the list-merge branch under a strategy
IsListMerged(field, strat) == strat = "merge" /\ field \in ListMergeFields

Reverse(xs) == [i \in 1..Len(xs) |-> xs[Len(xs) + 1 - i]]

\* the priority walk in which a later provider of the list overrides an
\* earlier one
_get_field_by_priority_with_source_LastWins(field, results, strat) ==
    IF IsListMerged(field, strat)
    THEN [value |-> PyList(_merge_list_field(field, results)), source |-> NoSource]
    ELSE FirstAvailable(field, results, Reverse(PriorityList(field)))

\* the priority walk over the results mapping in the order its entries were
\* entered, instead of over the priority list
_get_field_by_priority_with_source_ResultsOrder(field, results, strat) ==
    IF IsListMerged(field, strat)
    THEN [value |-> PyList(_merge_list_field(field, results)), source |-> NoSource]
    ELSE FirstAvailable(field, results, Keys(results))

\* the list-merge branch naming the first provider of the priority list as
\* the source of the merged list
_get_field_by_priority_with_source_ListSource(field, results, strat) ==
    IF IsListMerged(field, strat)
    THEN [value  |-> PyList(_merge_list_field(field, results)),
          source |-> Head(PriorityList(field))]
    ELSE FirstAvailable(field, results, PriorityList(field))

\* the priority walk that asks only the first provider of the priority list
_get_field_by_priority_with_source_FirstOnly(field, results, strat) ==
    IF IsListMerged(field, strat)
    THEN [value |-> PyList(_merge_list_field(field, results)), source |-> NoSource]
    ELSE FirstAvailable(field, results, <<Head(PriorityList(field))>>)

\* MultiScraperManager._get_field_by_priority_with_source
_get_field_by_priority_with_source(field, results, strat) ==
    IF IsListMerged(field, strat)
    THEN [value |-> PyList(_merge_list_field(field, results)), source |-> NoSource]
    ELSE FirstAvailable(field, results, PriorityList(field))

\* all_fields of merge_metadata: the keys of every truthy result
AllFields(results) ==
    UNION {DOMAIN results[i][2].rec : i \in {j \in 1..Len(results) : Truthy(results[j][2])}}

\* the fields merge_metadata enters in merged: 'if field_value is not None'
MergedFields(results, strat) ==
    {f \in AllFields(results) :
        _get_field_by_priority_with_source(f, results, strat).value.t # "None"}

\* the names merge_metadata lists in _scrapers_used: 'result is not None'
RECURSIVE ScrapersUsed(_)
ScrapersUsed(results) ==
    IF results = <<>> THEN <<>>
    ELSE IF IsNotNone(Head(results)[2])
         THEN <<Head(results)[1]>> \o ScrapersUsed(Tail(results))
         ELSE ScrapersUsed(Tail(results))

\* MultiScraperManager.merge_metadata.  The three bookkeeping entries
\* _scrapers_used, _merge_strategy and _field_sources are kept beside the
\* metadata fields.
merge_metadata(results, strat) ==
    [fields |-> [f \in MergedFields(results, strat) |->
                    _get_field_by_priority_with_source(f, results, strat).value],
     scrapers_used  |-> ScrapersUsed(results),
     merge_strategy |-> strat,
     field_sources  |-> [f \in {g \in MergedFields(results, strat) :
                            _get_field_by_priority_with_source(g, results, strat).source # NoSource}
                         |-> _get_field_by_priority_with_source(f, results, strat).source]]

\* merged before merge_metadata has run
NoMerged ==
    [fields |-> <<>>, scrapers_used |-> <<>>, merge_strategy |-> "",
     field_sources |-> <<>>]

----------------------------------------------------------------------------
(* The letters and digits of Python str, str.upper() and str.lower() *)

LowerLetters == <<"a", "b", "c", "d", "e", "f", "g", "h", "i", "j", "k", "l", "m", "n", "o", "p", "q", "r", "s", "t", "u", "v", "w", "x", "y", "z">>
UpperLetters == <<"A", "B", "C", "D", "E", "F", "G", "H", "I", "J", "K", "L", "M", "N", "O", "P", "Q", "R", "S", "T", "U", "V", "W", "X", "Y", "Z">>
DigitChars == <<"0", "1", "2", "3", "4", "5", "6", "7", "8", "9">>

IsLetter(c) == c \in Range(LowerLetters) \cup Range(UpperLetters)
IsDigit(c) == c \in Range(DigitChars)

IndexIn(xs, c) == CHOOSE i \in 1..Len(xs) : xs[i] = c

\* str.upper() and str.lower(), character by character
UpperChar(c) == IF c \in Range(LowerLetters) THEN UpperLetters[IndexIn(LowerLetters, c)] ELSE c
LowerChar(c) == IF c \in Range(UpperLetters) THEN LowerLetters[IndexIn(UpperLetters, c)] ELSE c

Upper(cs) == [i \in 1..Len(cs) |-> UpperChar(cs[i])]
Lower(cs) == [i \in 1..Len(cs) |-> LowerChar(cs[i])]

----------------------------------------------------------------------------
(* scrapers/factory.py: the scraper registry *)

ScraperClasses == {"FanzaScraper", "R18DevScraper"}

\* the names callers register and look up
ScraperNames == {"fanza", "r18dev", "R18Dev"}

\* the names given to the factory in SpecRegistry
RegistryNames == {"fanza", "Fanza", "r18dev", "R18Dev", "R18DEV", "javdb"}

\* the characters of a name
NameSpelling(name) ==
    CASE name = "fanza"  -> <<"f", "a", "n", "z", "a">>
      [] name = "Fanza"  -> <<"F", "a", "n", "z", "a">>
      [] name = "r18dev" -> <<"r", "1", "8", "d", "e", "v">>
      [] name = "R18Dev" -> <<"R", "1", "8", "D", "e", "v">>
      [] name = "R18DEV" -> <<"R", "1", "8", "D", "E", "V">>
      [] name = "javdb"  -> <<"j", "a", "v", "d", "b">>

\* name.lower(): the name spelled with the lowercased characters
LowerName(name) ==
    CHOOSE m \in RegistryNames : NameSpelling(m) = Lower(NameSpelling(name))

\* ScraperFactory._scrapers as the class body sets it
InitialScrapers == [n \in {"fanza"} |-> "FanzaScraper"]

\* ScraperFactory.create_scraper: the class registered under name.lower(),
\* NoScraper for the None it returns otherwise
NoScraper == "None"

\* create_scraper looking the name up as it is written
create_scraper_CaseSensitive(reg, name) ==
    IF name \in DOMAIN reg THEN reg[name] ELSE NoScraper

create_scraper(reg, name) ==
    IF LowerName(name) \in DOMAIN reg THEN reg[LowerName(name)] ELSE NoScraper

----------------------------------------------------------------------------
(* What a provider's search can return *)

SeqsUpTo(S, k) == UNION {[1..m -> S] : m \in 0..k}

Drama  == <<"D", "r", "a", "m", "a">>
Comedy == <<"C", "o", "m", "e", "d", "y">>
Action == <<"A", "c", "t", "i", "o", "n">>

TitleValues ==
    {PyNone, PyStr(<<>>), PyStr(<<" ">>), PyStr(<<"x">>), PyStr(<<"y">>)}

PlotValues == {PyStr(<<>>), PyStr(<<"p">>), PyStr(<<"q">>)}

RuntimeValues ==
    {PyInt(0), PyInt(90), PyStr(<<"0">>), PyStr(<<"0", ":", "0", "0">>)}

MakerValues == {PyDict(0), PyDict(4), PyStr(<<"\t", " ">>), PyStr(<<" ", "m", " ">>)}

RatingValues == {PyStr(<<>>), PyFloat(0), PyFloat(4)}

GenreItems == {StrItem(Drama), StrItem(Comedy), StrItem(Action)}

GenreValues == {PyList(xs) : xs \in SeqsUpTo(GenreItems, MaxListLen)}

ActressItems ==
    {StrItem(Drama),
     DictItem(TRUE, Drama, FALSE, <<>>, <<"u", "1">>),
     DictItem(FALSE, <<>>, TRUE, Drama, <<"u", "2">>),
     DictItem(TRUE, Comedy, TRUE, Drama, <<>>),
     DictItem(FALSE, <<>>, FALSE, <<>>, <<"u", "3">>)}

ActressValues == {PyList(xs) : xs \in SeqsUpTo(ActressItems, MaxListLen)}

GalleryItem1 == DictItem(FALSE, <<>>, FALSE, <<>>, <<"g", "1">>)
GalleryItem2 == DictItem(FALSE, <<>>, FALSE, <<>>, <<"g", "2">>)

GalleryValues ==
    {PyNone, PyStr(<<"x">>), PyList(<<>>), PyList(<<GalleryItem1>>),
     PyList(<<GalleryItem2, GalleryItem1>>)}

\* the lists of names held for actors, directors and categories
NameListValues ==
    {PyList(<<>>), PyList(<<StrItem(Drama)>>),
     PyList(<<StrItem(Comedy), StrItem(Drama)>>)}

\* the fields of the provider records and the values each can hold
Fields == {"title", "plot", "runtime", "maker", "rating", "genres",
           "actresses", "gallery", "actors", "directors", "categories"}

FieldValues(f) ==
    CASE f = "title"     -> TitleValues
      [] f = "plot"      -> PlotValues
      [] f = "runtime"   -> RuntimeValues
      [] f = "maker"     -> MakerValues
      [] f = "rating"    -> RatingValues
      [] f = "genres"    -> GenreValues
      [] f = "actresses" -> ActressValues
      [] f = "gallery"   -> GalleryValues
      [] f \in {"actors", "directors", "categories"} -> NameListValues

EmptyRecord == <<>>

\* the records: the empty one (FanzaScraper.format_metadata on a response
\* without content), one field, or a title with a plot
Records ==
    {EmptyRecord}
    \cup {f :> v : <<f, v>> \in UNION {{f} \X FieldValues(f) : f \in Fields}}
    \cup {("title" :> t) @@ ("plot" :> p) : <<t, p>> \in TitleValues \X PlotValues}

\* a search raises, returns None or returns a record
Outcomes ==
    {[kind |-> "raise", rec |-> <<>>], NoneResult} \cup {DictResult(r) : r \in Records}

----------------------------------------------------------------------------
(* utils/pattern.py: PatternMatcher.  Codes and content IDs are Python str, *)
(* sequences of characters.                                                 *)

\* the character class [A-Za-z0-9-]
IsCodeChar(c) == IsLetter(c) \/ IsDigit(c) \/ c = "-"

\* re.sub(r'[^A-Za-z0-9-]', '', code)
RECURSIVE RemoveNonCodeChars(_)
RemoveNonCodeChars(cs) ==
    IF cs = <<>> THEN <<>>
    ELSE IF IsCodeChar(Head(cs)) THEN <<Head(cs)>> \o RemoveNonCodeChars(Tail(cs))
    ELSE RemoveNonCodeChars(Tail(cs))

\* str.split('-'): the pieces between the hyphens, one more than hyphens
RECURSIVE SplitDash(_)
SplitDash(cs) ==
    IF \A i \in 1..Len(cs) : cs[i] # "-" THEN <<cs>>
    ELSE LET k == CHOOSE i \in 1..Len(cs) :
                      cs[i] = "-" /\ \A j \in 1..(i - 1) : cs[j] # "-"
         IN  <<SubSeq(cs, 1, k - 1)>> \o SplitDash(SubSeq(cs, k + 1, Len(cs)))

Zeros(k) == [i \in 1..k |-> "0"]

\* str.zfill(width): zeros on the left, after a leading sign
zfill(cs, width) ==
    IF Len(cs) >= width THEN cs
    ELSE IF cs # <<>> /\ Head(cs) \in {"+", "-"}
         THEN <<Head(cs)>> \o Zeros(width - Len(cs)) \o Tail(cs)
         ELSE Zeros(width - Len(cs)) \o cs

\* the tables of jav_code_to_content_id
no_zero_pad_codes ==
    {<<"s", "m", "u", "s">>, <<"s", "m", "j", "h">>, <<"s", "m", "u", "b">>, <<"s", "m", "j", "s">>,
     <<"s", "m", "j", "x">>, <<"o", "r", "e", "c", "z">>, <<"n", "o", "s", "t">>, <<"m", "f", "c">>,
     <<"m", "f", "c", "s">>}

prefix_1_codes ==
    {<<"s", "d", "m", "f">>, <<"d", "l", "d", "s", "s">>, <<"s", "w">>, <<"s", "t", "a", "r", "t">>,
     <<"s", "t", "a", "r", "s">>, <<"p", "i", "y", "o">>, <<"s", "d", "a", "m">>, <<"s", "d", "m", "m">>,
     <<"h", "a", "w", "a">>, <<"f", "s", "d", "s", "s">>, <<"s", "e", "n", "n">>}

h_prefix_keys ==
    {<<"m", "i", "l", "k">>, <<"a", "m", "b", "i">>, <<"f", "n", "e", "w">>, <<"e", "i", "n", "a", "v">>,
     <<"p", "j", "a", "b">>}

h_prefix_codes(p) ==
    CASE p = <<"m", "i", "l", "k">> -> <<"h", "_", "1", "2", "4", "0">>
      [] p = <<"a", "m", "b", "i">> -> <<"h", "_", "2", "3", "7">>
      [] p = <<"f", "n", "e", "w">> -> <<"h", "_", "4", "9", "1">>
      [] p = <<"e", "i", "n", "a", "v">> -> <<"h", "_", "1", "3", "5", "0">>
      [] p = <<"p", "j", "a", "b">> -> <<"h", "_", "1", "6", "0", "4">>

numeric_prefix_keys == {<<"d", "h", "l", "d">>, <<"f", "a", "y", "s">>}

numeric_prefix_codes(p) ==
    CASE p = <<"d", "h", "l", "d">> -> <<"3", "6">>
      [] p = <<"f", "a", "y", "s">> -> <<"5", "5">>

\* the rule table with the numbers of the exempted prefixes padded to 5
\* digits like the others
TranscodeParts_PadFive(prefix, number) ==
    LET prefix_lower == Lower(prefix)
        padded_number == zfill(number, 5)
    IN  IF prefix_lower = <<"t", "2", "8">>
        THEN <<"5", "5", "t", "2", "8">> \o zfill(number, 5)
        ELSE IF prefix_lower \in {<<"a", "b", "f">>, <<"a", "b", "w">>}
        THEN <<"1", "1", "8">> \o prefix_lower \o zfill(number, 3)
        ELSE IF prefix_lower \in no_zero_pad_codes
        THEN prefix_lower \o padded_number
        ELSE IF prefix_lower \in prefix_1_codes
        THEN <<"1">> \o prefix_lower \o padded_number
        ELSE IF prefix_lower \in h_prefix_keys
        THEN h_prefix_codes(prefix_lower) \o prefix_lower \o padded_number
        ELSE IF prefix_lower \in numeric_prefix_keys
        THEN numeric_prefix_codes(prefix_lower) \o prefix_lower \o padded_number
        ELSE prefix_lower \o padded_number

\* jav_code_to_content_id after the split: the first rule that knows the
\* lowercased prefix makes the content ID
TranscodeParts(prefix, number) ==
    LET prefix_lower == Lower(prefix)
        padded_number == zfill(number, 5)
    IN  IF prefix_lower = <<"t", "2", "8">>
        THEN <<"5", "5", "t", "2", "8">> \o zfill(number, 5)
        ELSE IF prefix_lower \in {<<"a", "b", "f">>, <<"a", "b", "w">>}
        THEN <<"1", "1", "8">> \o prefix_lower \o zfill(number, 3)
        ELSE IF prefix_lower \in no_zero_pad_codes
        THEN prefix_lower \o zfill(number, 3)
        ELSE IF prefix_lower \in prefix_1_codes
        THEN <<"1">> \o prefix_lower \o padded_number
        ELSE IF prefix_lower \in h_prefix_keys
        THEN h_prefix_codes(prefix_lower) \o prefix_lower \o padded_number
        ELSE IF prefix_lower \in numeric_prefix_keys
        THEN numeric_prefix_codes(prefix_lower) \o prefix_lower \o padded_number
        ELSE prefix_lower \o padded_number

\* jav_code_to_content_id with the default rule for every prefix
jav_code_to_content_id_NoRules(jav_code) ==
    LET parts == SplitDash(RemoveNonCodeChars(jav_code))
    IN  IF Len(parts) # 2 THEN Lower(jav_code)
        ELSE Lower(parts[1]) \o zfill(parts[2], 5)

\* jav_code_to_content_id falling back to the cleaned code
jav_code_to_content_id_CleanFallback(jav_code) ==
    LET parts == SplitDash(RemoveNonCodeChars(jav_code))
    IN  IF Len(parts) # 2 THEN Lower(RemoveNonCodeChars(jav_code))
        ELSE TranscodeParts(parts[1], parts[2])

\* PatternMatcher.jav_code_to_content_id
jav_code_to_content_id(jav_code) ==
    LET clean_code == RemoveNonCodeChars(jav_code)
        parts == SplitDash(clean_code)
    IN  IF Len(parts) # 2 THEN Lower(jav_code)
        ELSE TranscodeParts(parts[1], parts[2])

\* the length of the longest run of characters of a class at the start
RECURSIVE LeadingLetters(_)
LeadingLetters(cs) ==
    IF cs # <<>> /\ IsLetter(Head(cs)) THEN 1 + LeadingLetters(Tail(cs)) ELSE 0

RECURSIVE LeadingDigits(_)
LeadingDigits(cs) ==
    IF cs # <<>> /\ IsDigit(Head(cs)) THEN 1 + LeadingDigits(Tail(cs)) ELSE 0

\* the run of digits kept as it is
StrInt_KeepZeros(ds) == ds

\* str(int(number)) of a run of digits: the run without its leading zeros
RECURSIVE StrInt(_)
StrInt(ds) ==
    IF Len(ds) > 1 /\ Head(ds) = "0" THEN StrInt(Tail(ds)) ELSE ds

\* PatternMatcher.content_id_to_jav_code: re.match(r'([a-zA-Z]+)(\d+)')
\* takes the leading letters and the digits that follow them
content_id_to_jav_code(content_id) ==
    LET k == LeadingLetters(content_id)
        m == LeadingDigits(SubSeq(content_id, k + 1, Len(content_id)))
    IN  IF k = 0 \/ m = 0 THEN Upper(content_id)
        ELSE Upper(SubSeq(content_id, 1, k)) \o <<"-">>
                 \o StrInt(SubSeq(content_id, k + 1, k + m))

\* normalize_jav_code without the upper()
normalize_jav_code_NoUpper(code) == RemoveNonCodeChars(code)

\* PatternMatcher.normalize_jav_code
normalize_jav_code(code) == Upper(RemoveNonCodeChars(code))

\* re.match(r'^[a-zA-Z]+\d+$', code): letters, then digits up to the end
\* of the string or to a newline that ends it
MatchesContentIdShape(code) ==
    LET k == LeadingLetters(code)
        rest == SubSeq(code, k + 1, Len(code))
        m == LeadingDigits(rest)
    IN  /\ k >= 1
        /\ m >= 1
        /\ \/ m = Len(rest)
           \/ m = Len(rest) - 1 /\ rest[Len(rest)] = "\n"

\* re.match(settings.JAV_CODE_PATTERN, code, re.IGNORECASE) with the pattern
\* [A-Za-z0-9]{2,6}-?\d{3,5}: some start of the string has the shape
MatchesJavCodePattern(code) ==
    \E p \in 2..6, h \in 0..1, d \in 3..5 :
        /\ p + h + d <= Len(code)
        /\ \A i \in 1..p : IsLetter(code[i]) \/ IsDigit(code[i])
        /\ h = 1 => code[p + 1] = "-"
        /\ \A i \in (p + h + 1)..(p + h + d) : IsDigit(code[i])

\* PatternMatcher.validate_jav_code
validate_jav_code(code) ==
    IF code = <<>> THEN FALSE
    ELSE IF MatchesContentIdShape(code) THEN TRUE
    ELSE MatchesJavCodePattern(code)

----------------------------------------------------------------------------
(* utils/cache.py: TranslationCache *)

\* the keys of the cache _get_default_cache builds
CacheFieldTypes ==
    {"genres", "actress", "director", "studio", "label", "series", "metadata"}

\* TranslationCache._get_default_cache: an empty dict for each field type
_get_default_cache == [ft \in CacheFieldTypes |-> <<>>]

\* TranslationCache._get_cache_key: the MD5 digest of
\* "<text.lower().strip()>:<field_type>", an injective function of the pair
\* for field types without a colon, kept as the pair
_get_cache_key(text, field_type) == <<Strip(Lower(text)), field_type>>

\* TranslationCache.get_cached_translation
get_cached_translation(c, text, field_type) ==
    IF text = <<>> \/ field_type \notin DOMAIN c THEN PyNone
    ELSE IF _get_cache_key(text, field_type) \in DOMAIN c[field_type]
         THEN PyStr(c[field_type][_get_cache_key(text, field_type)])
         ELSE PyNone

\* TranslationCache.set_cached_translation: the cache after the call
set_cached_translation(c, text, field_type, translation) ==
    IF text = <<>> \/ translation = <<>> \/ field_type \notin DOMAIN c THEN c
    ELSE [c EXCEPT ![field_type] =
             [k \in DOMAIN c[field_type] \cup {_get_cache_key(text, field_type)} |->
                 IF k = _get_cache_key(text, field_type) THEN translation
                 ELSE c[field_type][k]]]

\* TranslationCache.clear_cache(field_type): "" for the default None
clear_cache(c, field_type) ==
    IF field_type # ""
    THEN IF field_type \in DOMAIN c THEN [c EXCEPT ![field_type] = <<>>] ELSE c
    ELSE _get_default_cache

\* no TranslationCache method has been called
NoCacheCall ==
    [op |-> "none", text |-> <<>>, field_type |-> "", translation |-> <<>>, ret |-> PyNone]

CacheIdle ==
    /\ cache = _get_default_cache
    /\ cache_prev = _get_default_cache
    /\ cache_call = NoCacheCall

\* no call of the factory has been made
NoFactoryCall == [op |-> "none", name |-> "", scraper |-> NoScraper]

----------------------------------------------------------------------------
(* The state machine *)

\* the identifiers given to search_manual
ManualInputs ==
    {<<"s", "o", "n", "e", "-", "6", "3", "8">>,
     <<"x", "-", "1">>,
     <<>>}

\* the codes search_auto found in file names
AutoCodes == {<<"D", "H", "L", "D", "-", "0", "1", "1">>}

\* no PatternMatcher function has been applied
PatternIdle ==
    /\ pm_op = "none"
    /\ pm_prev = <<>>
    /\ pm_in = <<>>
    /\ pm_out = <<>>
    /\ pm_valid = FALSE

Init ==
    /\ registry = InitialScrapers
    /\ strategy \in Strategies
    /\ pc = "idle"
    /\ idx = 1
    /\ scraper_results = <<>>
    /\ merged = NoMerged
    /\ ret = "pending"
    /\ jav_id = <<>>
    /\ manual_ret = "n/a"
    /\ query_code = <<>>
    /\ lookups = <<>>
    /\ PatternIdle
    /\ factory_call = NoFactoryCall
    /\ CacheIdle

\* ScraperFactory.register_scraper(name, scraper_class)
register_scraper(name, scraper_class) ==
    /\ pc = "idle"
    /\ registry' = [n \in DOMAIN registry \cup {LowerName(name)} |->
                        IF n = LowerName(name) THEN scraper_class ELSE registry[n]]
    /\ factory_call' = [op |-> "register", name |-> name, scraper |-> scraper_class]
    /\ UNCHANGED <<strategy, pc, idx, scraper_results, merged, ret,
                   jav_id, manual_ret, query_code, lookups, pattern_vars, cache_vars>>

\* search_with_priority(code) is called: search_all_scrapers starts with
\* no results
StartSearch(code) ==
    /\ pc' = "searching"
    /\ idx' = 1
    /\ scraper_results' = <<>>
    /\ merged' = NoMerged
    /\ ret' = "pending"
    /\ query_code' = code
    /\ lookups' = <<>>

\* search_auto calls search_with_priority with the code of a file
search_with_priority ==
    /\ pc = "idle"
    /\ \E code \in AutoCodes : StartSearch(code)
    /\ jav_id' = <<>>
    /\ manual_ret' = "n/a"
    /\ UNCHANGED <<registry, strategy, pattern_vars, factory_vars, cache_vars>>

\* search_manual without its validation
search_manual_NoValidation(raw) ==
    /\ pc = "idle"
    /\ jav_id' = normalize_jav_code(raw)
    /\ StartSearch(normalize_jav_code(raw))
    /\ manual_ret' = "pending"
    /\ UNCHANGED <<registry, strategy, pattern_vars, factory_vars, cache_vars>>

\* search_manual(raw): normalize, validate, then search_with_priority
search_manual(raw) ==
    /\ pc = "idle"
    /\ jav_id' = normalize_jav_code(raw)
    /\ IF ~validate_jav_code(normalize_jav_code(raw))
       THEN /\ manual_ret' = "False"
            /\ pc' = "done"
            /\ UNCHANGED <<idx, scraper_results, merged, ret, query_code, lookups>>
       ELSE /\ StartSearch(normalize_jav_code(raw))
            /\ manual_ret' = "pending"
    /\ UNCHANGED <<registry, strategy, pattern_vars, factory_vars, cache_vars>>

\* scraper.search(jav_code) of FanzaScraper and R18DevScraper: the call, the
\* content ID it asks the provider for, and how the call ended
Lookup(name, code, kind) ==
    [scraper |-> name, jav_code |-> code,
     content_id |-> jav_code_to_content_id(code), outcome |-> kind]

\* one turn of the loop of search_all_scrapers over a scraper that
\* create_scraper found: its search raises or returns
SearchScraper ==
    /\ pc = "searching"
    /\ idx <= Len(ENABLED_SCRAPERS)
    /\ create_scraper(registry, ENABLED_SCRAPERS[idx]) # NoScraper
    /\ \E out \in Outcomes :
          /\ lookups' = Append(lookups, Lookup(ENABLED_SCRAPERS[idx], query_code, out.kind))
          /\ scraper_results' =
                 DictSet(scraper_results, ENABLED_SCRAPERS[idx],
                         IF out.kind = "raise" THEN NoneResult ELSE out)
    /\ idx' = idx + 1
    /\ factory_call' = [op |-> "create", name |-> ENABLED_SCRAPERS[idx],
                        scraper |-> create_scraper(registry, ENABLED_SCRAPERS[idx])]
    /\ UNCHANGED <<registry, strategy, pc, merged, ret,
                   jav_id, manual_ret, query_code, pattern_vars, cache_vars>>

\* one turn of the loop over a name create_scraper does not know
SearchUnknownScraper ==
    /\ pc = "searching"
    /\ idx <= Len(ENABLED_SCRAPERS)
    /\ create_scraper(registry, ENABLED_SCRAPERS[idx]) = NoScraper
    /\ scraper_results' = DictSet(scraper_results, ENABLED_SCRAPERS[idx], NoneResult)
    /\ idx' = idx + 1
    /\ factory_call' = [op |-> "create", name |-> ENABLED_SCRAPERS[idx],
                        scraper |-> create_scraper(registry, ENABLED_SCRAPERS[idx])]
    /\ UNCHANGED <<registry, strategy, pc, merged, ret,
                   jav_id, manual_ret, query_code, lookups, pattern_vars, cache_vars>>

\* found_data with any entry of the mapping counting as data
FoundData_AnyEntry(results) == results # <<>>

\* found_data of search_with_priority
FoundData(results) == \E i \in 1..Len(results) : IsNotNone(results[i][2])

\* search_all_scrapers has returned and no scraper found data:
\* search_with_priority returns None, search_manual returns False
ReturnNone ==
    /\ pc = "searching"
    /\ idx > Len(ENABLED_SCRAPERS)
    /\ ~FoundData(scraper_results)
    /\ ret' = "None"
    /\ manual_ret' = IF manual_ret = "pending" THEN "False" ELSE manual_ret
    /\ pc' = "done"
    /\ UNCHANGED <<registry, strategy, idx, scraper_results, merged,
                   jav_id, query_code, lookups, pattern_vars, factory_vars, cache_vars>>

\* the merge made as soon as one provider has answered with data
ReturnMerged_Early ==
    /\ pc = "searching"
    /\ idx > 1
    /\ FoundData(scraper_results)
    /\ merged' = merge_metadata(scraper_results, strategy)
    /\ ret' = "merged"
    /\ manual_ret' = IF manual_ret = "pending" THEN "True" ELSE manual_ret
    /\ pc' = "done"
    /\ UNCHANGED <<registry, strategy, idx, scraper_results,
                   jav_id, query_code, lookups, pattern_vars, factory_vars, cache_vars>>

\* the merge that drops the None entries from the results mapping
ReturnMerged_DropsNone ==
    /\ pc = "searching"
    /\ idx > Len(ENABLED_SCRAPERS)
    /\ FoundData(scraper_results)
    /\ merged' = merge_metadata(scraper_results, strategy)
    /\ scraper_results' = SelectSeq(scraper_results, LAMBDA e : IsNotNone(e[2]))
    /\ ret' = "merged"
    /\ manual_ret' = IF manual_ret = "pending" THEN "True" ELSE manual_ret
    /\ pc' = "done"
    /\ UNCHANGED <<registry, strategy, idx,
                   jav_id, query_code, lookups, pattern_vars, factory_vars, cache_vars>>

\* search_all_scrapers has returned with data: merge_metadata and return;
\* search_manual prints the record and returns True, or False when
\* formatting the NFO content raised
ReturnMerged ==
    /\ pc = "searching"
    /\ idx > Len(ENABLED_SCRAPERS)
    /\ FoundData(scraper_results)
    /\ merged' = merge_metadata(scraper_results, strategy)
    /\ ret' = "merged"
    /\ \/ manual_ret' = IF manual_ret = "pending" THEN "True" ELSE manual_ret
       \/ manual_ret = "pending" /\ manual_ret' = "False"
    /\ pc' = "done"
    /\ UNCHANGED <<registry, strategy, idx, scraper_results,
                   jav_id, query_code, lookups, pattern_vars, factory_vars, cache_vars>>

\* the caller is done with the returned record
Finish ==
    /\ pc = "done"
    /\ pc' = "idle"
    /\ idx' = 1
    /\ scraper_results' = <<>>
    /\ merged' = NoMerged
    /\ ret' = "pending"
    /\ jav_id' = <<>>
    /\ manual_ret' = "n/a"
    /\ query_code' = <<>>
    /\ lookups' = <<>>
    /\ factory_call' = NoFactoryCall
    /\ UNCHANGED <<registry, strategy, pattern_vars, cache_vars>>

Next ==
    \/ \E name \in ScraperNames \ {"fanza"} : register_scraper(name, "R18DevScraper")
    \/ search_with_priority
    \/ \E raw \in ManualInputs : search_manual(raw)
    \/ SearchScraper
    \/ SearchUnknownScraper
    \/ ReturnNone
    \/ ReturnMerged
    \/ Finish

Spec == Init /\ [][Next]_vars

----------------------------------------------------------------------------
(* Vocabulary of the properties *)

\* search_with_priority has returned the record of merge_metadata
Returned == pc = "done" /\ ret = "merged"

\* provider p returned a record that contains field f
Holds(results, p, f) ==
    /\ HasKey(results, p)
    /\ Get(results, p).kind = "dict"
    /\ f \in DOMAIN Get(results, p).rec

ValueOf(results, p, f) == Get(results, p).rec[f]

HoldsValid(results, p, f) ==
    Holds(results, p, f) /\ _is_valid_value(ValueOf(results, p, f))

\* the fields of the records the providers returned
FieldUnion(results) ==
    {f \in Fields : \E i \in 1..Len(results) : Holds(results, results[i][1], f)}

\* position i of plist is the first whose provider holds f with a valid value
FirstValidAt(results, plist, f, i) ==
    /\ HoldsValid(results, plist[i], f)
    /\ \A j \in 1..(i - 1) : ~HoldsValid(results, plist[j], f)

\* the results mapping with its entries entered in every other order
Reorderings(results) ==
    {[i \in 1..Len(results) |-> results[pi[i]]] : pi \in Permutations(1..Len(results))}

\* the results mapping without the entry f of provider p's record
WithoutEntry(results, p, f) ==
    [i \in 1..Len(results) |->
        IF results[i][1] = p
        THEN <<p, DictResult([g \in DOMAIN results[i][2].rec \ {f} |-> results[i][2].rec[g]])>>
        ELSE results[i]]

----------------------------------------------------------------------------
(* Properties of the field merge *)

\* C1: in priority strategy, every field of the field union takes the value
\* of the first provider of its priority list that holds it with a valid
\* value, and that provider is its provenance; no later provider of the
\* list overrides it.
C1_PriorityFirstValidWins ==
    (Returned /\ strategy = "priority") =>
        \A f \in FieldUnion(scraper_results) :
            \A i \in 1..Len(PriorityList(f)) :
                FirstValidAt(scraper_results, PriorityList(f), f, i) =>
                    /\ f \in DOMAIN merged.fields
                    /\ merged.fields[f] = ValueOf(scraper_results, PriorityList(f)[i], f)
                    /\ f \in DOMAIN merged.field_sources
                    /\ merged.field_sources[f] = PriorityList(f)[i]

\* C1 witness: both providers hold different valid titles and the merged
\* title is the one of r18dev, the first of the priority list of title,
\* although fanza's result was entered first.
C1_Witness ==
    /\ Returned /\ strategy = "priority"
    /\ HoldsValid(scraper_results, "fanza", "title")
    /\ HoldsValid(scraper_results, "r18dev", "title")
    /\ ValueOf(scraper_results, "fanza", "title") # ValueOf(scraper_results, "r18dev", "title")
    /\ merged.fields["title"] = ValueOf(scraper_results, "r18dev", "title")
    /\ merged.field_sources["title"] = "r18dev"

\* C2: under both strategies, removing an entry that holds an invalid value
\* from a provider's record changes neither the merged record nor the
\* provenance.
C2_InvalidSameAsAbsent ==
    Returned =>
        \A i \in 1..Len(scraper_results) :
            \A f \in Fields :
                (Holds(scraper_results, scraper_results[i][1], f)
                 /\ ~_is_valid_value(ValueOf(scraper_results, scraper_results[i][1], f)))
                => LET without == merge_metadata(
                                      WithoutEntry(scraper_results, scraper_results[i][1], f),
                                      strategy)
                   IN  /\ without.fields = merged.fields
                       /\ without.field_sources = merged.field_sources

\* C3: in priority strategy the merged fields and the provenance are the same
\* for every order in which the providers' results are entered in the results
\* mapping; a field valid in both records of priority list [A, B] takes A's
\* value and has provenance A in every order.
C3_OrderIndependent ==
    (Returned /\ strategy = "priority") =>
        \A reordered \in Reorderings(scraper_results) :
            LET m == merge_metadata(reordered, strategy)
            IN  /\ m.fields = merged.fields
                /\ m.field_sources = merged.field_sources
                /\ \A f \in FieldUnion(scraper_results) :
                      (\A k \in 1..Len(PriorityList(f)) :
                           HoldsValid(scraper_results, PriorityList(f)[k], f))
                      => /\ m.fields[f] = ValueOf(scraper_results, PriorityList(f)[1], f)
                         /\ m.field_sources[f] = PriorityList(f)[1]

\* C3 witness: title and plot are valid in both records with different
\* values; the title has the priority list [r18dev, fanza] while the results
\* were entered fanza first.
C3_Witness ==
    /\ Returned /\ strategy = "priority"
    /\ Keys(scraper_results) = <<"fanza", "r18dev">>
    /\ \A f \in {"title", "plot"} :
          /\ HoldsValid(scraper_results, "fanza", f)
          /\ HoldsValid(scraper_results, "r18dev", f)
          /\ ValueOf(scraper_results, "fanza", f) # ValueOf(scraper_results, "r18dev", f)
    /\ merged.field_sources = ("title" :> "r18dev") @@ ("plot" :> "fanza")

\* C4: in merge strategy, genres ["Drama","Comedy"] of the first provider of
\* the priority list of genres (r18dev) and ["Comedy","Action"] of the second
\* (fanza) merge to ["Drama","Comedy","Action"].
C4_GenresListMerged ==
    (/\ Returned /\ strategy = "merge"
     /\ Holds(scraper_results, "r18dev", "genres")
     /\ Holds(scraper_results, "fanza", "genres")
     /\ ValueOf(scraper_results, "r18dev", "genres")
            = PyList(<<StrItem(Drama), StrItem(Comedy)>>)
     /\ ValueOf(scraper_results, "fanza", "genres")
            = PyList(<<StrItem(Comedy), StrItem(Action)>>))
    => /\ "genres" \in DOMAIN merged.fields
       /\ merged.fields["genres"]
              = PyList(<<StrItem(Drama), StrItem(Comedy), StrItem(Action)>>)

\* the de-duplication key of a list entry as C5 words it: the name, else the
\* id, of a structured entry (its printed form when it has neither), and
\* the string form of any other entry
DedupKey(item) ==
    CASE item.t = "dict" /\ item.hasName -> item.name
      [] item.t = "dict" /\ ~item.hasName /\ item.hasId -> item.id
      [] item.t = "dict" /\ ~item.hasName /\ ~item.hasId -> Repr(item)
      [] OTHER -> item.s

\* the lists the providers hold for field f, one after the other in the
\* order of plist
RECURSIVE ListsInOrder(_, _, _)
ListsInOrder(results, plist, f) ==
    IF plist = <<>> THEN <<>>
    ELSE (IF Holds(results, Head(plist), f) /\ ValueOf(results, Head(plist), f).t = "list"
          THEN ValueOf(results, Head(plist), f).l
          ELSE <<>>) \o ListsInOrder(results, Tail(plist), f)

\* the positions of xs that hold the first entry with their key
FirstSeenAt(xs) ==
    {i \in 1..Len(xs) : \A j \in 1..(i - 1) : DedupKey(xs[j]) # DedupKey(xs[i])}

\* C5: in merge strategy the merged value of a designated list field is the
\* providers' lists, visited in the field's priority order, without the
\* entries whose key was seen before: no key occurs twice, every key of a
\* provider's list occurs, and the entries keep their first-seen order.
C5_ListMergeDeduplicates ==
    (Returned /\ strategy = "merge") =>
        \A f \in FieldUnion(scraper_results) \cap ListMergeFields :
            LET all == ListsInOrder(scraper_results, PriorityList(f), f)
                out == merged.fields[f].l
            IN  /\ merged.fields[f].t = "list"
                /\ \A i, j \in 1..Len(out) :
                       DedupKey(out[i]) = DedupKey(out[j]) => i = j
                /\ {DedupKey(out[i]) : i \in 1..Len(out)}
                       = {DedupKey(all[i]) : i \in 1..Len(all)}
                /\ Len(out) = Cardinality(FirstSeenAt(all))
                /\ \A k \in 1..Len(out) :
                       \E i \in FirstSeenAt(all) :
                           /\ Cardinality({j \in FirstSeenAt(all) : j < i}) = k - 1
                           /\ out[k] = all[i]

\* C5 witness: both providers hold a list of actresses, an entry of fanza's
\* list has the key of an entry of r18dev's list, and the merged list holds
\* an entry of each provider.
C5_Witness ==
    /\ Returned /\ strategy = "merge"
    /\ Holds(scraper_results, "fanza", "actresses")
    /\ Holds(scraper_results, "r18dev", "actresses")
    /\ LET a == ValueOf(scraper_results, "r18dev", "actresses").l
           b == ValueOf(scraper_results, "fanza", "actresses").l
       IN  /\ Len(a) = MaxListLen /\ Len(b) = MaxListLen
           /\ \E i \in 1..Len(a), j \in 1..Len(b) :
                  a[i] # b[j] /\ DedupKey(a[i]) = DedupKey(b[j])
           /\ Len(merged.fields["actresses"].l) > Len(a)
           /\ Len(merged.fields["actresses"].l) < Len(a) + Len(b)

\* C6: every metadata field of the merged record holds a valid value in at
\* least one provider's record.
C6_MergedFieldsValidSomewhere ==
    Returned =>
        \A f \in DOMAIN merged.fields :
            \E i \in 1..Len(scraper_results) :
                HoldsValid(scraper_results, scraper_results[i][1], f)

\* C7: the provider recorded as the provenance of a field holds the field
\* with a valid value equal to the merged one; a field resolved by the
\* priority rule has a provenance and a list-merged field has none.
C7_ProvenanceIsTheSupplier ==
    Returned =>
        /\ \A f \in DOMAIN merged.field_sources :
               /\ f \in DOMAIN merged.fields
               /\ HoldsValid(scraper_results, merged.field_sources[f], f)
               /\ ValueOf(scraper_results, merged.field_sources[f], f) = merged.fields[f]
        /\ \A f \in DOMAIN merged.fields :
               IF strategy = "merge" /\ f \in ListMergeFields
               THEN f \notin DOMAIN merged.field_sources
               ELSE f \in DOMAIN merged.field_sources

\* C7 witness: a merge in merge strategy with a title, which has a
\* provenance, and a list of actresses, which has none.
C7_Witness ==
    /\ Returned /\ strategy = "merge"
    /\ DOMAIN merged.fields = {"title", "actresses"}
    /\ DOMAIN merged.field_sources = {"title"}
    /\ merged.fields["actresses"].l # <<>>

\* C8: a field without an entry in the field-priority table that is valid in
\* the record of some enabled provider is in the merged record, with the
\* value of the first provider of the enabled list that holds it valid.
C8_FallbackToEnabledOrder ==
    Returned =>
        \A f \in Fields \ DOMAIN field_priorities :
            \A i \in 1..Len(ENABLED_SCRAPERS) :
                FirstValidAt(scraper_results, ENABLED_SCRAPERS, f, i) =>
                    /\ f \in DOMAIN merged.fields
                    /\ merged.fields[f] = ValueOf(scraper_results, ENABLED_SCRAPERS[i], f)

\* C8 witness: the plot has no entry in the table, both providers hold a
\* valid plot, and the merged plot is the one of fanza, the first of the
\* enabled list.
C8_Witness ==
    /\ Returned
    /\ "plot" \notin DOMAIN field_priorities
    /\ HoldsValid(scraper_results, "fanza", "plot")
    /\ HoldsValid(scraper_results, "r18dev", "plot")
    /\ ValueOf(scraper_results, "fanza", "plot") # ValueOf(scraper_results, "r18dev", "plot")
    /\ merged.fields["plot"] = ValueOf(scraper_results, "fanza", "plot")

\* the validity rule as C9 words it
InvalidByRule(v) ==
    \/ v.t = "None"
    \/ v.t = "str" /\ \A i \in 1..Len(v.s) : v.s[i] \in Whitespace
    \/ v.t = "list" /\ Len(v.l) = 0
    \/ v.t = "dict" /\ v.n = 0
    \/ v.t \in {"int", "float"} /\ v.n = 0

\* C9: _is_valid_value is false exactly for None, an empty or whitespace-only
\* string, an empty list or mapping and the numeric zero, and the same rule
\* decides in priority resolution: a field resolved by the priority rule is
\* merged exactly when a provider of its priority list holds a value the
\* rule accepts, and the providers before its provenance hold none.
C9_ValidityRule ==
    /\ \A i \in 1..Len(scraper_results) :
           \A f \in DOMAIN scraper_results[i][2].rec :
               _is_valid_value(scraper_results[i][2].rec[f])
                   = ~InvalidByRule(scraper_results[i][2].rec[f])
    /\ Returned =>
           \A f \in FieldUnion(scraper_results) :
               ~(strategy = "merge" /\ f \in ListMergeFields) =>
                   LET plist == PriorityList(f)
                       ok(k) == /\ Holds(scraper_results, plist[k], f)
                                /\ ~InvalidByRule(ValueOf(scraper_results, plist[k], f))
                   IN  /\ f \in DOMAIN merged.fields <=> \E k \in 1..Len(plist) : ok(k)
                       /\ f \in DOMAIN merged.fields =>
                              \E k \in 1..Len(plist) :
                                  /\ plist[k] = merged.field_sources[f]
                                  /\ ok(k)
                                  /\ \A j \in 1..(k - 1) : ~ok(j)

\* C9 witness: r18dev holds the runtime 0, the numeric zero, and fanza the
\* string "0"; the merged runtime is fanza's string.
C9_Witness ==
    /\ Returned
    /\ Holds(scraper_results, "r18dev", "runtime")
    /\ Holds(scraper_results, "fanza", "runtime")
    /\ ValueOf(scraper_results, "r18dev", "runtime") = PyInt(0)
    /\ ValueOf(scraper_results, "fanza", "runtime") = PyStr(<<"0">>)
    /\ merged.fields["runtime"] = PyStr(<<"0">>)
    /\ merged.field_sources["runtime"] = "fanza"

\* C10: _scrapers_used holds a provider exactly when the provider's record
\* contributed to the field union; a provider that returned a record
\* without fields is not in it.
C10_ScrapersUsedContributed ==
    Returned =>
        \A i \in 1..Len(scraper_results) :
            (scraper_results[i][1] \in Range(merged.scrapers_used))
                <=> (/\ scraper_results[i][2].kind = "dict"
                     /\ DOMAIN scraper_results[i][2].rec # {})

----------------------------------------------------------------------------
(* The PatternMatcher functions applied to strings *)

\* the characters of the free-form strings
RawAlphabet == {"A", "1", "-", "_"}

\* every string over RawAlphabet of at most MaxRawLen characters
RawStrings == UNION {[1..k -> RawAlphabet] : k \in 0..MaxRawLen}

\* prefixes and numbers of codes: some for each rule of the table
CodePrefixes ==
    {<<"S", "O", "N", "E">>, <<"D", "H", "L", "D">>, <<"M", "I", "L", "K">>, <<"S", "D", "M", "F">>,
     <<"A", "B">>, <<"A", "B", "1">>, <<"T", "2", "8">>, <<"A", "B", "F">>, <<"S", "M", "U", "S">>}

CodeNumbers ==
    {<<"6", "3", "8">>, <<"0", "1", "1">>, <<"2", "2", "5">>, <<"0", "2", "2">>, <<"1", "2", "3", "4">>, <<"1", "2", "3", "4", "5">>,
     <<"7">>}

\* what a raw identifier has between prefix and number
Separators == {<<"-">>, <<"_">>, <<".">>, <<" ">>, <<>>}

\* the raw spellings of the code of a prefix and a number: either letter
\* case, any separator, a blank before or after
Spellings(prefix, number) ==
    {before \o p \o sep \o number \o after :
        before \in {<<>>, <<" ">>}, p \in {Upper(prefix), Lower(prefix)},
        sep \in Separators, after \in {<<>>, <<" ">>}}

PatternInputs ==
    RawStrings \cup UNION {Spellings(p, n) : p \in CodePrefixes, n \in CodeNumbers}

\* the search is idle with the default strategy
InitPattern ==
    /\ registry = InitialScrapers
    /\ strategy = "priority"
    /\ pc = "idle"
    /\ idx = 1
    /\ scraper_results = <<>>
    /\ merged = NoMerged
    /\ ret = "pending"
    /\ jav_id = <<>>
    /\ manual_ret = "n/a"
    /\ query_code = <<>>
    /\ lookups = <<>>
    /\ PatternIdle
    /\ factory_call = NoFactoryCall
    /\ CacheIdle

\* a call of a PatternMatcher function and what it returned
Called(op, prev, arg, out, valid) ==
    /\ pm_op' = op
    /\ pm_prev' = prev
    /\ pm_in' = arg
    /\ pm_out' = out
    /\ pm_valid' = valid
    /\ UNCHANGED <<search_vars, factory_vars, cache_vars>>

Normalize ==
    /\ pm_op = "none"
    /\ \E x \in PatternInputs :
          Called("normalize_jav_code", <<>>, x, normalize_jav_code(x), FALSE)

\* normalize_jav_code applied to what normalize_jav_code returned
NormalizeAgain ==
    /\ pm_op = "normalize_jav_code"
    /\ pm_prev = <<>>
    /\ Called("normalize_jav_code", <<pm_in>>, pm_out, normalize_jav_code(pm_out), FALSE)

Validate ==
    /\ pm_op = "none"
    /\ \E x \in PatternInputs :
          Called("validate_jav_code", <<>>, x, <<>>, validate_jav_code(x))

ToContentId ==
    /\ pm_op = "none"
    /\ \E x \in PatternInputs :
          Called("jav_code_to_content_id", <<>>, x, jav_code_to_content_id(x), FALSE)

ToJavCode ==
    /\ pm_op = "none"
    /\ \E x \in PatternInputs :
          Called("content_id_to_jav_code", <<>>, x, content_id_to_jav_code(x), FALSE)

\* content_id_to_jav_code applied to what jav_code_to_content_id returned
BackToJavCode ==
    /\ pm_op = "jav_code_to_content_id"
    /\ Called("content_id_to_jav_code", <<pm_in>>, pm_out, content_id_to_jav_code(pm_out), FALSE)

NextPattern ==
    \/ Normalize
    \/ NormalizeAgain
    \/ Validate
    \/ ToContentId
    \/ ToJavCode
    \/ BackToJavCode

SpecPattern == InitPattern /\ [][NextPattern]_vars

----------------------------------------------------------------------------
(* The factory called by a client *)

\* ScraperFactory.create_scraper(name) called outside a search
CreateScraper ==
    /\ pc = "idle"
    /\ \E name \in RegistryNames :
          factory_call' = [op |-> "create", name |-> name,
                           scraper |-> create_scraper(registry, name)]
    /\ UNCHANGED <<search_vars, pattern_vars, cache_vars>>

NextRegistry ==
    \/ \E name \in RegistryNames, scraper_class \in ScraperClasses :
           register_scraper(name, scraper_class)
    \/ CreateScraper

SpecRegistry == InitPattern /\ [][NextRegistry]_vars

----------------------------------------------------------------------------
(* Claims about the fan-out and about search_manual *)

\* search_with_priority has returned to its caller
SearchReturned == pc = "done" /\ ret # "pending"

\* the calls of the search of one provider during the current call
LookupsOf(name) == {j \in 1..Len(lookups) : lookups[j].scraper = name}

\* C11: an exception raised by a provider's lookup is recorded as None for
\* that provider only: the step that handles it leaves the entries already
\* collected as they were and the call goes on, and when the call returns
\* every provider later in the enabled list has been queried and the caller
\* got None or the merged record, never the exception.
C11_ExceptionIsolated ==
    [][/\ (Len(lookups') = Len(lookups) + 1 /\ lookups'[Len(lookups')].outcome = "raise")
             => /\ Get(scraper_results', lookups'[Len(lookups')].scraper) = NoneResult
                /\ \A i \in 1..Len(scraper_results) :
                       /\ scraper_results[i][1] # lookups'[Len(lookups')].scraper
                       => /\ HasKey(scraper_results', scraper_results[i][1])
                          /\ Get(scraper_results', scraper_results[i][1]) = scraper_results[i][2]
                /\ pc' = "searching"
       /\ (pc = "searching" /\ pc' = "done")
             => /\ ret' \in {"None", "merged"}
                /\ \A j \in 1..Len(lookups) :
                       lookups[j].outcome = "raise"
                       => \A i \in 1..Len(ENABLED_SCRAPERS) :
                              (\E k \in 1..(i - 1) : ENABLED_SCRAPERS[k] = lookups[j].scraper)
                              => LookupsOf(ENABLED_SCRAPERS[i]) # {}
      ]_vars

\* C12: when search_all_scrapers has returned, the lookup of every provider
\* of the enabled list was invoked exactly once, with the code the caller
\* passed.
C12_EveryEnabledLookedUpOnce ==
    SearchReturned =>
        \A i \in 1..Len(ENABLED_SCRAPERS) :
            /\ Cardinality(LookupsOf(ENABLED_SCRAPERS[i])) = 1
            /\ \A j \in LookupsOf(ENABLED_SCRAPERS[i]) : lookups[j].jav_code = query_code

\* every entry of the results mapping is None
AllNotFound(results) == \A i \in 1..Len(results) : ~IsNotNone(results[i][2])

\* C13: when every enabled provider's lookup returned None or failed,
\* search_with_priority returns None, and merge_metadata of those results
\* has no metadata field, no contributing provider and no provenance.
C13_AllNotFoundReturnsNone ==
    (SearchReturned /\ AllNotFound(scraper_results)) =>
        /\ ret = "None"
        /\ manual_ret \in {"n/a", "False"}
        /\ DOMAIN merge_metadata(scraper_results, strategy).fields = {}
        /\ merge_metadata(scraper_results, strategy).scrapers_used = <<>>
        /\ DOMAIN merge_metadata(scraper_results, strategy).field_sources = {}

\* C13 witness: both providers were asked, one lookup raised and the other
\* returned None, and search_with_priority returned None.
C13_Witness ==
    /\ SearchReturned
    /\ ret = "None"
    /\ Len(lookups) = 2
    /\ lookups[1].outcome = "raise"
    /\ lookups[2].outcome = "None"
    /\ AllNotFound(scraper_results)

\* C14: a search_manual whose normalized identifier fails validate_jav_code
\* has returned False without any lookup, and a lookup made during a
\* search_manual is made for an identifier that passed validate_jav_code.
C14_InvalidIdNoLookup ==
    /\ (manual_ret # "n/a" /\ ~validate_jav_code(jav_id))
           => /\ manual_ret = "False"
              /\ pc = "done"
              /\ ret = "pending"
              /\ lookups = <<>>
    /\ (manual_ret # "n/a" /\ lookups # <<>>) => validate_jav_code(jav_id)

\* C14 witness: search_manual of "x-1", normalized to "X-1", which is not
\* a valid code, has returned False with both providers registered and no
\* lookup made.
C14_Witness ==
    /\ pc = "done"
    /\ manual_ret = "False"
    /\ jav_id = <<"X", "-", "1">>
    /\ ~validate_jav_code(jav_id)
    /\ "r18dev" \in DOMAIN registry
    /\ lookups = <<>>

----------------------------------------------------------------------------
(* Claims about the PatternMatcher functions *)

\* jav_code_to_content_id was called on a string of its own
TranscodedDirectly == pm_op = "jav_code_to_content_id" /\ pm_prev = <<>>

\* C15: jav_code_to_content_id gives the documented content IDs: "SONE-638"
\* gives "sone00638", "DHLD-011" gives "36dhld00011", "MILK-225" gives
\* "h_1240milk00225" and "SDMF-022" gives "1sdmf00022".
C15_DocumentedContentIds ==
    TranscodedDirectly =>
        /\ pm_in = <<"S", "O", "N", "E", "-", "6", "3", "8">> => pm_out = <<"s", "o", "n", "e", "0", "0", "6", "3", "8">>
        /\ pm_in = <<"D", "H", "L", "D", "-", "0", "1", "1">> => pm_out = <<"3", "6", "d", "h", "l", "d", "0", "0", "0", "1", "1">>
        /\ pm_in = <<"M", "I", "L", "K", "-", "2", "2", "5">> => pm_out = <<"h", "_", "1", "2", "4", "0", "m", "i", "l", "k", "0", "0", "2", "2", "5">>
        /\ pm_in = <<"S", "D", "M", "F", "-", "0", "2", "2">> => pm_out = <<"1", "s", "d", "m", "f", "0", "0", "0", "2", "2">>

\* C15 witness: jav_code_to_content_id("MILK-225") returned "h_1240milk00225".
C15_Witness ==
    /\ TranscodedDirectly
    /\ pm_in = <<"M", "I", "L", "K", "-", "2", "2", "5">>
    /\ pm_out = <<"h", "_", "1", "2", "4", "0", "m", "i", "l", "k", "0", "0", "2", "2", "5">>

\* the prefixes the rule table of jav_code_to_content_id names
RulePrefixes ==
    {<<"t", "2", "8">>, <<"a", "b", "f">>, <<"a", "b", "w">>}
        \cup no_zero_pad_codes \cup prefix_1_codes \cup h_prefix_keys \cup numeric_prefix_keys

\* a code PREFIX-NUMBER of the default rule: an uppercase prefix of 2 to 6
\* letters and digits that no rule names, and a number of 3 to 5 digits
\* with no zero in front (the narrowest reading of canonical zero-padding)
IsDefaultRuleCode(code) ==
    \E p \in 2..6, d \in 3..5 :
        /\ Len(code) = p + 1 + d
        /\ \A i \in 1..p : code[i] \in Range(UpperLetters) \cup Range(DigitChars)
        /\ code[p + 1] = "-"
        /\ \A i \in (p + 2)..(p + 1 + d) : IsDigit(code[i])
        /\ code[p + 2] # "0"
        /\ Lower(SubSeq(code, 1, p)) \notin RulePrefixes

\* C16: for a code PREFIX-NUMBER of the default rule, with a prefix of 2 to
\* 6 alphanumeric characters and canonical zero-padding,
\* content_id_to_jav_code of its content ID is the code again.
C16_RoundTrip ==
    (pm_op = "content_id_to_jav_code" /\ pm_prev # <<>> /\ IsDefaultRuleCode(pm_prev[1]))
        => pm_out = pm_prev[1]

\* C17: normalize_jav_code returns only uppercase letters, digits and
\* hyphens, and applied to its own result it returns that result.
C17_NormalizeIdempotent ==
    pm_op = "normalize_jav_code" =>
        /\ \A i \in 1..Len(pm_out) :
               pm_out[i] \in Range(UpperLetters) \cup Range(DigitChars) \cup {"-"}
        /\ pm_prev # <<>> => pm_out = pm_in

\* C17 witness: normalize_jav_code(" sone_638") returned "SONE638", and
\* normalize_jav_code("SONE638") returned "SONE638".
C17_Witness ==
    /\ pm_op = "normalize_jav_code"
    /\ pm_prev = <<<<" ", "s", "o", "n", "e", "_", "6", "3", "8">>>>
    /\ pm_in = <<"S", "O", "N", "E", "6", "3", "8">>
    /\ pm_out = <<"S", "O", "N", "E", "6", "3", "8">>

\* C18: the raw spellings of one code, which differ in letter case, in
\* blanks and in the separator between prefix and number, are all
\* normalized to the same string.
C18_SpellingsNormalizeAlike ==
    (pm_op = "normalize_jav_code" /\ pm_prev = <<>>) =>
        \A p \in CodePrefixes, n \in CodeNumbers :
            pm_in \in Spellings(p, n) =>
                \A y \in Spellings(p, n) : normalize_jav_code(y) = pm_out

\* the whole string is a prefix of 2 to 6 letters and digits, an optional
\* hyphen and 3 to 5 digits
IsWholePrefixNumber(code) ==
    \E p \in 2..6, h \in 0..1, d \in 3..5 :
        /\ Len(code) = p + h + d
        /\ \A i \in 1..p : IsLetter(code[i]) \/ IsDigit(code[i])
        /\ h = 1 => code[p + 1] = "-"
        /\ \A i \in (p + h + 1)..(p + h + d) : IsDigit(code[i])

\* the whole string is one or more letters and then one or more digits
IsWholeLettersDigits(code) ==
    \E k \in 1..(Len(code) - 1) :
        /\ \A i \in 1..k : IsLetter(code[i])
        /\ \A i \in (k + 1)..Len(code) : IsDigit(code[i])

\* C19: validate_jav_code is true exactly when the whole code is a prefix
\* of 2 to 6 alphanumeric characters, an optional hyphen and 3 to 5 digits,
\* or letters directly followed by digits.
C19_ValidateWholeString ==
    pm_op = "validate_jav_code" =>
        (pm_valid <=> (IsWholePrefixNumber(pm_in) \/ IsWholeLettersDigits(pm_in)))

\* the number of hyphens of a string
HyphenCount(cs) == Cardinality({i \in 1..Len(cs) : cs[i] = "-"})

\* C20: jav_code_to_content_id returns a string for every input, and for a
\* code with no hyphen or with more than one it returns the input
\* lowercased and otherwise unchanged.
C20_FallbackLowercases ==
    TranscodedDirectly =>
        /\ pm_out \in Seq(Range(LowerLetters) \cup Range(UpperLetters) \cup Range(DigitChars)
                              \cup RawAlphabet \cup {".", " "})
        /\ HyphenCount(pm_in) # 1 =>
               /\ Len(pm_out) = Len(pm_in)
               /\ \A i \in 1..Len(pm_in) :
                      pm_out[i] = (IF pm_in[i] \in Range(UpperLetters)
                                   THEN LowerLetters[IndexIn(UpperLetters, pm_in[i])]
                                   ELSE pm_in[i])

\* C20 witness: jav_code_to_content_id("A-1-_A") returned "a-1-_a".
C20_Witness ==
    /\ TranscodedDirectly
    /\ pm_in = <<"A", "-", "1", "-", "_", "A">>
    /\ pm_out = <<"a", "-", "1", "-", "_", "a">>

----------------------------------------------------------------------------
(* Claims about the scraper registry *)

\* two names are equal up to letter case
SameUpToCase(n, m) == Upper(NameSpelling(n)) = Upper(NameSpelling(m))

\* C21: at the start only the names equal to "fanza" up to case are known
\* and create_scraper gives None for the others; register_scraper(name, c)
\* makes create_scraper give c for every name equal to name up to case; a
\* create_scraper right after it, for such a name, returned c; and no step
\* other than a register_scraper of a name equal to n up to case changes
\* what create_scraper gives for n, a create_scraper changing nothing of
\* the registry.
C21_RegistryLookup ==
    /\ \A n \in RegistryNames :
           create_scraper(registry, n) =
               (IF SameUpToCase(n, "fanza") THEN "FanzaScraper" ELSE NoScraper)
    /\ [][/\ factory_call'.op = "register" /\ factory_call' # factory_call
             => \A n \in RegistryNames :
                    SameUpToCase(n, factory_call'.name)
                    => create_scraper(registry', n) = factory_call'.scraper
          /\ (factory_call.op = "register" /\ factory_call'.op = "create"
                 /\ SameUpToCase(factory_call'.name, factory_call.name))
             => factory_call'.scraper = factory_call.scraper
          /\ factory_call'.op = "create" => registry' = registry
          /\ \A n \in RegistryNames :
                 \/ /\ factory_call'.op = "register"
                    /\ SameUpToCase(n, factory_call'.name)
                 \/ create_scraper(registry', n) = create_scraper(registry, n)
         ]_vars

\* C21 witness: create_scraper("R18DEV") returned the class registered for
\* r18dev, and create_scraper("javdb"), never registered, gives None.
C21_Witness ==
    /\ factory_call = [op |-> "create", name |-> "R18DEV", scraper |-> "R18DevScraper"]
    /\ registry["fanza"] = "R18DevScraper"
    /\ create_scraper(registry, "javdb") = NoScraper

----------------------------------------------------------------------------
(* Claims about the merge inside search_with_priority *)

\* some provider that returned a record holds f with a value the validity
\* rule accepts
SomeValid(results, f) ==
    \E i \in 1..Len(results) :
        /\ Holds(results, results[i][1], f)
        /\ ~InvalidByRule(ValueOf(results, results[i][1], f))

\* C22: in priority strategy, a field for which some provider that
\* returned a record holds a valid value is in the merged record.
C22_ValidFieldIsMerged ==
    (Returned /\ strategy = "priority") =>
        \A f \in Fields : SomeValid(scraper_results, f) => f \in DOMAIN merged.fields

\* C22 witness: in priority strategy r18dev, first in the priority list,
\* holds an invalid title and fanza a valid one, and the merged record has
\* fanza's title.
C22_Witness ==
    /\ Returned
    /\ strategy = "priority"
    /\ Holds(scraper_results, "r18dev", "title")
    /\ InvalidByRule(ValueOf(scraper_results, "r18dev", "title"))
    /\ Holds(scraper_results, "fanza", "title")
    /\ ~InvalidByRule(ValueOf(scraper_results, "fanza", "title"))
    /\ "title" \in DOMAIN merged.fields
    /\ merged.fields["title"] = ValueOf(scraper_results, "fanza", "title")

\* C23: in merge strategy, a field outside the list fields of the list-merge
\* branch has the value and the provenance it has in priority strategy for
\* the same results, and its value is the value of one provider, not a
\* list merged from several.
C23_OtherFieldsByPriority ==
    (Returned /\ strategy = "merge") =>
        \A f \in Fields \ ListMergeFields :
            /\ f \in DOMAIN merged.fields
                   <=> f \in DOMAIN merge_metadata(scraper_results, "priority").fields
            /\ f \in DOMAIN merged.fields =>
                   /\ merged.fields[f] = merge_metadata(scraper_results, "priority").fields[f]
                   /\ f \in DOMAIN merged.field_sources
                   /\ merged.field_sources[f]
                          = merge_metadata(scraper_results, "priority").field_sources[f]
                   /\ merged.fields[f]
                          = ValueOf(scraper_results, merged.field_sources[f], f)

\* C23 witness: in merge strategy both providers hold different non-empty
\* genres lists, and the merged genres are r18dev's list alone.
C23_Witness ==
    /\ Returned
    /\ strategy = "merge"
    /\ Holds(scraper_results, "r18dev", "genres")
    /\ Holds(scraper_results, "fanza", "genres")
    /\ ~InvalidByRule(ValueOf(scraper_results, "r18dev", "genres"))
    /\ ~InvalidByRule(ValueOf(scraper_results, "fanza", "genres"))
    /\ ValueOf(scraper_results, "r18dev", "genres") # ValueOf(scraper_results, "fanza", "genres")
    /\ merged.fields["genres"] = ValueOf(scraper_results, "r18dev", "genres")
    /\ merged.field_sources["genres"] = "r18dev"

\* C24: the step that builds the merged record is taken when the loop over
\* the enabled providers has ended and the results mapping has one entry
\* for each of them, it merges exactly that mapping, and no lookup is made
\* once a merged record exists.
C24_MergeAfterAllSettled ==
    [][/\ merged' # merged /\ merged' # NoMerged
          => /\ idx > Len(ENABLED_SCRAPERS)
             /\ Len(scraper_results) = Len(ENABLED_SCRAPERS)
             /\ \A i \in 1..Len(ENABLED_SCRAPERS) : HasKey(scraper_results, ENABLED_SCRAPERS[i])
             /\ merged' = merge_metadata(scraper_results, strategy)
       /\ Len(lookups') > Len(lookups)
          => merged = NoMerged /\ merged' = NoMerged
      ]_vars

\* C24 witness: the first lookup raised, the second returned a record, and
\* the merged record was returned after both.
C24_Witness ==
    /\ Returned
    /\ Len(lookups) = 2
    /\ lookups[1].outcome = "raise"
    /\ lookups[2].outcome = "dict"
    /\ merged = merge_metadata(scraper_results, strategy)

\* C27: the step in which merge_metadata runs leaves the results mapping as
\* it was: the same providers with the same records.
C27_MergeLeavesResults ==
    [][(pc = "searching" /\ pc' = "done") => scraper_results' = scraper_results]_vars

\* C27 witness: in merge strategy the actresses of both providers were
\* merged into a list longer than either provider's, and both records are
\* still in the results mapping.
C27_Witness ==
    /\ Returned
    /\ strategy = "merge"
    /\ Holds(scraper_results, "r18dev", "actresses")
    /\ Holds(scraper_results, "fanza", "actresses")
    /\ "actresses" \in DOMAIN merged.fields
    /\ PyLen(merged.fields["actresses"]) > PyLen(ValueOf(scraper_results, "r18dev", "actresses"))
    /\ PyLen(merged.fields["actresses"]) > PyLen(ValueOf(scraper_results, "fanza", "actresses"))

\* C28: a record returned by search_with_priority holds at least one
\* metadata field besides the bookkeeping entries.
C28_ReturnedRecordHasField ==
    Returned => DOMAIN merged.fields # {}

----------------------------------------------------------------------------
(* The translation cache called by the translator *)

\* the field types Translator.translate_metadata passes to the cache, and
\* "director", a field type of the cache that the translator never passes
TranslatorFieldTypes ==
    {"genres", "directors", "actress", "title", "plot", "studio", "label", "series"}

CallFieldTypes == TranslatorFieldTypes \cup {"director"}

\* texts to translate: the empty one, one text in two spellings, another text
CacheTexts == {<<>>, <<"a">>, <<" ", "A">>, <<"b">>}

\* translations the service returns
Translations == {<<>>, <<"x">>, <<"y">>}

\* the number of translations in a cache
CacheSize(c) ==
    Cardinality(UNION {{<<ft, k>> : k \in DOMAIN c[ft]} : ft \in DOMAIN c})

SetCachedTranslation ==
    /\ pc = "idle"
    /\ \E text \in CacheTexts, field_type \in CallFieldTypes, translation \in Translations :
        /\ CacheSize(set_cached_translation(cache, text, field_type, translation))
               <= MaxCacheEntries
        /\ cache' = set_cached_translation(cache, text, field_type, translation)
        /\ cache_prev' = cache
        /\ cache_call' = [op |-> "set", text |-> text, field_type |-> field_type,
                          translation |-> translation, ret |-> PyNone]
    /\ UNCHANGED <<search_vars, pattern_vars, factory_vars>>

GetCachedTranslation ==
    /\ pc = "idle"
    /\ \E text \in CacheTexts, field_type \in CallFieldTypes :
        cache_call' = [op |-> "get", text |-> text, field_type |-> field_type,
                       translation |-> <<>>,
                       ret |-> get_cached_translation(cache, text, field_type)]
    /\ cache_prev' = cache
    /\ UNCHANGED <<cache, search_vars, pattern_vars, factory_vars>>

ClearCache ==
    /\ pc = "idle"
    /\ \E field_type \in CallFieldTypes \cup CacheFieldTypes \cup {""} :
        /\ cache' = clear_cache(cache, field_type)
        /\ cache_call' = [op |-> "clear", text |-> <<>>, field_type |-> field_type,
                          translation |-> <<>>, ret |-> PyNone]
    /\ cache_prev' = cache
    /\ UNCHANGED <<search_vars, pattern_vars, factory_vars>>

NextCache ==
    \/ SetCachedTranslation
    \/ GetCachedTranslation
    \/ ClearCache

SpecCache == InitPattern /\ [][NextCache]_vars

----------------------------------------------------------------------------
(* Claims about the rule table and the inverse transcoding *)

\* the characters of a code that jav_code_to_content_id keeps
CodeChars(cs) == SelectSeq(cs, LAMBDA c : IsLetter(c) \/ IsDigit(c) \/ c = "-")

\* where the hyphen of a code with one hyphen is
HyphenAt(cs) == CHOOSE i \in 1..Len(cs) : cs[i] = "-"

\* a run of digits left-padded with zeros to a width
PadTo(ds, w) ==
    IF Len(ds) >= w THEN ds
    ELSE [i \in 1..w |-> IF i <= w - Len(ds) THEN "0" ELSE ds[i - (w - Len(ds))]]

\* a string in lowercase, character by character
Lowercased(cs) ==
    [i \in 1..Len(cs) |->
        IF cs[i] \in Range(UpperLetters)
        THEN LowerLetters[IndexIn(UpperLetters, cs[i])] ELSE cs[i]]

\* the prefixes with a fixed literal override
LiteralOverrides == {<<"t", "2", "8">>, <<"a", "b", "f">>, <<"a", "b", "w">>}

\* C25: for a code with one hyphen the content ID is made by the first
\* rule, in the order literal override, no-zero-pad, "1" marker, namespace
\* marker, numeric marker, default, that knows the lowercased prefix: the
\* no-zero-pad rule pads the number to 3 digits, every later rule to 5, and
\* the default rule gives the prefix and the padded number with no marker.
C25_FirstMatchingRule ==
    (TranscodedDirectly /\ HyphenCount(pm_in) = 1) =>
        LET code == CodeChars(pm_in)
            p == Lowercased(SubSeq(code, 1, HyphenAt(code) - 1))
            n == SubSeq(code, HyphenAt(code) + 1, Len(code))
        IN  /\ p = <<"t", "2", "8">> => pm_out = <<"5", "5", "t", "2", "8">> \o PadTo(n, 5)
            /\ p \in {<<"a", "b", "f">>, <<"a", "b", "w">>}
                   => pm_out = <<"1", "1", "8">> \o p \o PadTo(n, 3)
            /\ (p \notin LiteralOverrides /\ p \in no_zero_pad_codes)
                   => pm_out = p \o PadTo(n, 3)
            /\ (p \notin LiteralOverrides \cup no_zero_pad_codes /\ p \in prefix_1_codes)
                   => pm_out = <<"1">> \o p \o PadTo(n, 5)
            /\ (/\ p \notin LiteralOverrides \cup no_zero_pad_codes \cup prefix_1_codes
                /\ p \in h_prefix_keys)
                   => pm_out = h_prefix_codes(p) \o p \o PadTo(n, 5)
            /\ (/\ p \notin LiteralOverrides \cup no_zero_pad_codes \cup prefix_1_codes
                                \cup h_prefix_keys
                /\ p \in numeric_prefix_keys)
                   => pm_out = numeric_prefix_codes(p) \o p \o PadTo(n, 5)
            /\ p \notin RulePrefixes => pm_out = p \o PadTo(n, 5)

\* C25 witness: "SMUS-7", of a no-zero-pad prefix, gave "smus007".
C25_Witness ==
    /\ TranscodedDirectly
    /\ pm_in = <<"S", "M", "U", "S", "-", "7">>
    /\ pm_out = <<"s", "m", "u", "s", "0", "0", "7">>

\* the number a run of digits writes
RECURSIVE DigitsValue(_)
DigitsValue(ds) ==
    IF ds = <<>> THEN 0
    ELSE 10 * DigitsValue(SubSeq(ds, 1, Len(ds) - 1))
             + (IndexIn(DigitChars, ds[Len(ds)]) - 1)

\* the length of the run of letters at the start of a string
LetterRun(cs) ==
    CHOOSE k \in 0..Len(cs) :
        /\ \A i \in 1..k : IsLetter(cs[i])
        /\ k < Len(cs) => ~IsLetter(cs[k + 1])

\* the length of the run of digits of a string from position from on
DigitRun(cs, from) ==
    CHOOSE m \in 0..(Len(cs) - from + 1) :
        /\ \A i \in from..(from + m - 1) : IsDigit(cs[i])
        /\ from + m <= Len(cs) => ~IsDigit(cs[from + m])

\* C26: content_id_to_jav_code returns the input uppercased when the input
\* does not begin with letters directly followed by digits; otherwise it
\* returns the letters uppercased, a hyphen and the first run of digits
\* without leading zeros, a run that writes the same number.
C26_InverseTranscoding ==
    pm_op = "content_id_to_jav_code" =>
        LET k == LetterRun(pm_in)
            m == DigitRun(pm_in, k + 1)
            out_digits == SubSeq(pm_out, k + 2, Len(pm_out))
        IN  IF k = 0 \/ m = 0
            THEN /\ Len(pm_out) = Len(pm_in)
                 /\ \A i \in 1..Len(pm_in) :
                        pm_out[i] = (IF pm_in[i] \in Range(LowerLetters)
                                     THEN UpperLetters[IndexIn(LowerLetters, pm_in[i])]
                                     ELSE pm_in[i])
            ELSE /\ Len(pm_out) >= k + 2
                 /\ \A i \in 1..k :
                        /\ pm_out[i] \in Range(UpperLetters)
                        /\ LowerLetters[IndexIn(UpperLetters, pm_out[i])]
                               = Lowercased(pm_in)[i]
                 /\ pm_out[k + 1] = "-"
                 /\ \A i \in 1..Len(out_digits) : IsDigit(out_digits[i])
                 /\ Len(out_digits) > 1 => out_digits[1] # "0"
                 /\ DigitsValue(out_digits) = DigitsValue(SubSeq(pm_in, k + 1, k + m))

\* C26 witness: the content ID "sone00638" of "SONE-638" gave "SONE-638".
C26_Witness ==
    /\ pm_op = "content_id_to_jav_code"
    /\ pm_prev = <<<<"S", "O", "N", "E", "-", "6", "3", "8">>>>
    /\ pm_in = <<"s", "o", "n", "e", "0", "0", "6", "3", "8">>
    /\ pm_out = <<"S", "O", "N", "E", "-", "6", "3", "8">>

\* C29: an identifier without hyphen that normalize_jav_code returns as it
\* is and validate_jav_code accepts gets the content ID of the hyphenated
\* spelling of the same prefix and number.
C29_HyphenOptional ==
    TranscodedDirectly =>
        \A p \in CodePrefixes, n \in CodeNumbers :
            (/\ pm_in = p \o n
             /\ normalize_jav_code(pm_in) = pm_in
             /\ validate_jav_code(pm_in))
                => pm_out = jav_code_to_content_id(p \o <<"-">> \o n)

----------------------------------------------------------------------------
(* Claims about the translation cache *)

\* two texts equal up to letter case and surrounding whitespace
SameText(t, u) == Strip(Lowercased(t)) = Strip(Lowercased(u))

\* C30: right after set_cached_translation(text, field_type, translation)
\* with non-empty text and translation and a field type the translator
\* passes, get_cached_translation returns the translation for every spelling
\* of the text under that field type, and what a lookup under another field
\* type returns is what it returned before.
C30_CachedTranslationFound ==
    (/\ cache_call.op = "set"
     /\ cache_call.text # <<>>
     /\ cache_call.translation # <<>>
     /\ cache_call.field_type \in TranslatorFieldTypes)
        => /\ \A t \in CacheTexts :
                SameText(t, cache_call.text)
                    => get_cached_translation(cache, t, cache_call.field_type)
                           = PyStr(cache_call.translation)
           /\ \A t \in CacheTexts, ft \in CallFieldTypes \ {cache_call.field_type} :
                get_cached_translation(cache, t, ft)
                    = get_cached_translation(cache_prev, t, ft)

====
